---- MODULE Spec2Model ----
(***************************************************************************)
(* Model of codes/models/gpt_voice/gpt_tts.py (GptTts.forward and          *)
(* GptTts.inference) and of codes/data/audio/unsupervised_audio_dataset.py *)
(* (UnsupervisedAudioDataset.__getitem__).                                 *)
(*                                                                         *)
(* One behaviour of the model is one call of one of the three entry        *)
(* points; the variables of the two other entry points stay idle.          *)
(* Tensors are modelled as sequences: a (b, n) integer tensor is a         *)
(* sequence of b rows, each a sequence of n token ids.  The transformer,   *)
(* the embeddings and the heads are opaque: the argmax they produce is an  *)
(* input drawn from a small set of token ids.                              *)
(***************************************************************************)
EXTENDS Integers, Sequences, FiniteSets, TLC

VARIABLES
    inf_pc,             \* position in GptTts.inference: idle, loop, done, error
    mel_seq,            \* inference: the (b, n) tensor of generated tokens
    stop_encountered,   \* inference: one boolean per batch element
    steps,              \* inference: number of completed loop iterations
    warned,             \* inference: the frame-limit warning was printed
    inf_result,         \* inference: the returned tensor
    fwd_pc,             \* position in GptTts.forward: idle, call, returned, error
    mel_targets,        \* forward: one row of the mel_targets argument
    mel_argmax,         \* forward: argmax of the mel head at every input position
    output_lengths,     \* forward: the output_lengths entry of that row
    fwd_codes,          \* forward: returned cleaned mel codes (third result)
    fwd_targets,        \* forward: returned cleaned mel targets (fourth result)
    get_pc,             \* position in __getitem__: idle, try, returned, index_error, recursion_error
    num_paths,          \* len(self.audiopaths)
    failing,            \* indices whose loading raises
    debug_loading_failures,
    start_index,        \* the index __getitem__ was first called with
    index,              \* the index of the innermost __getitem__ frame
    retries             \* number of `return self[index+1]` executed

inf_vars == <<inf_pc, mel_seq, stop_encountered, steps, warned, inf_result>>
fwd_vars == <<fwd_pc, mel_targets, mel_argmax, output_lengths, fwd_codes, fwd_targets>>
get_vars == <<get_pc, num_paths, failing, debug_loading_failures, start_index, index, retries>>
vars == <<inf_vars, fwd_vars, get_vars>>

(***************************************************************************)
(* Bounds.  The source sets max_mel_frames = 900 * 1 // 4 = 225; the model *)
(* scales it down and every property is stated relative to it.             *)
(***************************************************************************)
max_mel_frames == 4
MaxPaths == 3
MaxDepth == 6

(***************************************************************************)
(* Program constants.                                                      *)
(***************************************************************************)
MEL_DICTIONARY_SIZE == 512 + 3
MEL_START_TOKEN == MEL_DICTIONARY_SIZE - 3
MEL_STOP_TOKEN == MEL_DICTIONARY_SIZE - 2

\* Token ids the mel head's argmax is drawn from: a content code and the three
\* reserved ids (START, STOP and the last id of the dictionary).
PredTokens == {1, MEL_START_TOKEN, MEL_STOP_TOKEN, MEL_DICTIONARY_SIZE - 1}
\* Token ids of the mel_targets argument: a content code and STOP.
TargetTokens == {1, MEL_STOP_TOKEN}
\* Batch sizes on both sides of the loop's len(mel_seq) < max_mel_frames test.
Batches == {1, 2, max_mel_frames, max_mel_frames + 1}
\* Lengths of mel_targets, up to one past the mel position table.
MelLens == 2..(max_mel_frames + 1)

(***************************************************************************)
(* Tensor helpers.                                                         *)
(***************************************************************************)
\* x[1:]
SliceFrom1(row) == SubSeq(row, 2, Len(row))
\* x[:-1]
DropLast(row) == SubSeq(row, 1, Len(row) - 1)
\* x[1:-1]
StripFirstLast(row) == SubSeq(row, 2, Len(row) - 1)
\* len(t) of a tensor: the size of its first dimension
TensorLen(t) == Len(t)
\* t.shape[1] of a (b, n) tensor
Shape1(t) == Len(t[1])
\* torch.all of a boolean vector
TorchAll(v) == \A i \in 1..Len(v) : v[i]

(***************************************************************************)
(* GptTts.inference                                                        *)
(***************************************************************************)
\* Variables of an entry point that is not the one being called.
InferenceIdle ==
    /\ inf_pc = "idle" /\ mel_seq = <<>> /\ stop_encountered = <<>>
    /\ steps = 0 /\ warned = FALSE /\ inf_result = <<>>

\* mel_seq = torch.full((b,1), MEL_START_TOKEN); stop_encountered = zeros((b,))
InitInference ==
    /\ inf_pc = "loop"
    /\ \E b \in Batches :
          /\ mel_seq = [i \in 1..b |-> <<MEL_START_TOKEN>>]
          /\ stop_encountered = [i \in 1..b |-> FALSE]
    /\ steps = 0
    /\ warned = FALSE
    /\ inf_result = <<>>

\* The while condition: not torch.all(stop_encountered) and len(mel_seq) < max_mel_frames
LoopCondition ==
    ~TorchAll(stop_encountered) /\ TensorLen(mel_seq) < max_mel_frames

\* mel_pos_embedding has max_mel_frames rows and is indexed by
\* arange(mel_emb.shape[1]): the lookup raises when the sequence is longer.
PosEmbeddingInRange(n) == n <= max_mel_frames

\* torch.cat([mel_seq, mel_codes[:, -1].unsqueeze(1)], dim=1)
AppendCodes(seq, codes) == [i \in 1..Len(seq) |-> Append(seq[i], codes[i])]

UpdateStopNoOr(stop, seq) ==
    [i \in 1..Len(seq) |-> seq[i][Len(seq[i])] = MEL_STOP_TOKEN]

\* torch.logical_or(stop_encountered, mel_seq[:,-1] == MEL_STOP_TOKEN)
UpdateStop(stop, seq) ==
    [i \in 1..Len(seq) |-> stop[i] \/ seq[i][Len(seq[i])] = MEL_STOP_TOKEN]

\* One iteration of the while loop.
DecodeStep ==
    /\ inf_pc = "loop"
    /\ LoopCondition
    /\ PosEmbeddingInRange(Shape1(mel_seq))
    /\ \E codes \in [1..Len(mel_seq) -> PredTokens] :
          /\ mel_seq' = AppendCodes(mel_seq, codes)
          /\ stop_encountered' = UpdateStop(stop_encountered, AppendCodes(mel_seq, codes))
    /\ steps' = steps + 1
    /\ UNCHANGED <<inf_pc, warned, inf_result>>

\* An iteration whose position-embedding lookup is out of range raises.
DecodeRaise ==
    /\ inf_pc = "loop"
    /\ LoopCondition
    /\ ~PosEmbeddingInRange(Shape1(mel_seq))
    /\ inf_pc' = "error"
    /\ UNCHANGED <<mel_seq, stop_encountered, steps, warned, inf_result>>

\* if len(mel_seq) >= self.max_mel_frames: print("Warning! ...")
FrameLimitWarning(seq) == TensorLen(seq) >= max_mel_frames

CleanInferenceLoose(x) == IF x < MEL_DICTIONARY_SIZE - 1 THEN x ELSE 0

\* mel_seq * (mel_seq < 512), one element
CleanInference(x) == IF x < 512 THEN x ELSE 0

PostProcessKeepLast(seq) ==
    [i \in 1..Len(seq) |->
        [j \in 1..Len(SliceFrom1(seq[i])) |-> CleanInference(SliceFrom1(seq[i])[j])]]

\* mel_seq[:, 1:-1] followed by the cleaning
PostProcess(seq) ==
    [i \in 1..Len(seq) |->
        [j \in 1..Len(StripFirstLast(seq[i])) |-> CleanInference(StripFirstLast(seq[i])[j])]]

\* The code after the loop, up to the return.
InferenceReturn ==
    /\ inf_pc = "loop"
    /\ ~LoopCondition
    /\ warned' = FrameLimitWarning(mel_seq)
    /\ inf_result' = PostProcess(mel_seq)
    /\ inf_pc' = "done"
    /\ UNCHANGED <<mel_seq, stop_encountered, steps>>

(***************************************************************************)
(* GptTts.forward, from the loss targets to the return (one batch row;     *)
(* every operation on these lines acts on each row separately).            *)
(***************************************************************************)
ForwardIdle ==
    /\ fwd_pc = "idle" /\ mel_targets = <<>> /\ mel_argmax = <<>>
    /\ output_lengths = 0 /\ fwd_codes = <<>> /\ fwd_targets = <<>>

InitForward ==
    /\ fwd_pc = "call"
    /\ \E m \in MelLens :
          /\ mel_targets \in [1..m -> TargetTokens]
          /\ mel_argmax \in [1..m -> PredTokens]
          /\ output_lengths \in 0..m
    /\ fwd_codes = <<>>
    /\ fwd_targets = <<>>

\* get_mask_from_lengths(lengths, max_len): position j (0-based) is set iff j < lengths
get_mask_from_lengths(lengths, max_len) == [j \in 1..max_len |-> (j - 1) < lengths]

\* x * (x < MEL_DICTIONARY_SIZE-3), one element
CleanForward(x) == IF x < MEL_DICTIONARY_SIZE - 3 THEN x ELSE 0

\* mel_targets = mel_targets[:,1:]
ShiftedTargets(targets) == SliceFrom1(targets)

\* argmax of mel_logits.permute(0,2,1)[:,:,:-1] along the class dimension
ShiftedArgmax(argmax) == DropLast(argmax)

MaskedCodesFullLength(codes, lengths, max_len) ==
    [j \in 1..Len(codes) |->
        IF ~get_mask_from_lengths(lengths, max_len)[j] THEN 0 ELSE codes[j]]

\* mel_pad_mask = ~get_mask_from_lengths(output_lengths-1, mel_targets.shape[1])
\* mel_codes * ones_like(mel_codes).masked_fill_(mel_pad_mask, 0)
MaskedCodes(codes, lengths, max_len) ==
    [j \in 1..Len(codes) |->
        IF ~get_mask_from_lengths(lengths - 1, max_len)[j] THEN 0 ELSE codes[j]]

\* The third result of forward.
CleanedMelCodes(argmax, targets, lengths) ==
    LET masked == MaskedCodes(ShiftedArgmax(argmax), lengths, Len(ShiftedTargets(targets)))
        stripped == DropLast(masked)
    IN  [j \in 1..Len(stripped) |-> CleanForward(stripped[j])]

CleanedMelTargetsKeepLast(targets) ==
    [j \in 1..Len(ShiftedTargets(targets)) |-> CleanForward(ShiftedTargets(targets)[j])]

\* The fourth result of forward.
CleanedMelTargets(targets) ==
    LET stripped == DropLast(ShiftedTargets(targets))
    IN  [j \in 1..Len(stripped) |-> CleanForward(stripped[j])]

\* A call whose mel position lookup is in range returns.
Forward ==
    /\ fwd_pc = "call"
    /\ PosEmbeddingInRange(Len(mel_targets))
    /\ fwd_codes' = CleanedMelCodes(mel_argmax, mel_targets, output_lengths)
    /\ fwd_targets' = CleanedMelTargets(mel_targets)
    /\ fwd_pc' = "returned"
    /\ UNCHANGED <<mel_targets, mel_argmax, output_lengths>>

\* mel_pos_embedding(arange(mel_targets.shape[1])) raises past the table.
ForwardRaise ==
    /\ fwd_pc = "call"
    /\ ~PosEmbeddingInRange(Len(mel_targets))
    /\ fwd_pc' = "error"
    /\ UNCHANGED <<mel_targets, mel_argmax, output_lengths, fwd_codes, fwd_targets>>

(***************************************************************************)
(* UnsupervisedAudioDataset.__getitem__                                    *)
(***************************************************************************)
GetItemIdle ==
    /\ get_pc = "idle" /\ num_paths = 0 /\ failing = {}
    /\ debug_loading_failures = FALSE
    /\ start_index = 0 /\ index = 0 /\ retries = 0

InitGetItem ==
    /\ get_pc = "try"
    /\ num_paths \in 1..MaxPaths
    /\ failing \in SUBSET (0..(num_paths - 1))
    /\ debug_loading_failures \in BOOLEAN
    /\ start_index \in 0..(num_paths - 1)
    /\ index = start_index
    /\ retries = 0

\* The try block raises: self.audiopaths[index] is out of range, or loading
\* the audio (or its related clips) fails.
TryRaises(i) == i >= num_paths \/ i \in failing

\* The except block's print evaluates self.audiopaths[index].
HandlerRaises(i) == debug_loading_failures /\ i >= num_paths

\* The try block succeeds and the sample of `index` is returned.
GetItemLoad ==
    /\ get_pc = "try"
    /\ ~TryRaises(index)
    /\ get_pc' = "returned"
    /\ UNCHANGED <<num_paths, failing, debug_loading_failures, start_index, index, retries>>

\* except: ... return self[index+1]
GetItemRetry ==
    /\ get_pc = "try"
    /\ TryRaises(index)
    /\ ~HandlerRaises(index)
    /\ retries < MaxDepth
    /\ index' = index + 1
    /\ retries' = retries + 1
    /\ UNCHANGED <<get_pc, num_paths, failing, debug_loading_failures, start_index>>

\* The print in the except block raises IndexError, which propagates.
GetItemHandlerRaise ==
    /\ get_pc = "try"
    /\ TryRaises(index)
    /\ HandlerRaises(index)
    /\ get_pc' = "index_error"
    /\ UNCHANGED <<num_paths, failing, debug_loading_failures, start_index, index, retries>>

\* The interpreter's recursion depth is exhausted.
GetItemRecursionError ==
    /\ get_pc = "try"
    /\ TryRaises(index)
    /\ ~HandlerRaises(index)
    /\ retries >= MaxDepth
    /\ get_pc' = "recursion_error"
    /\ UNCHANGED <<num_paths, failing, debug_loading_failures, start_index, index, retries>>

(***************************************************************************)
(* Specification                                                           *)
(***************************************************************************)
Init ==
    \/ InitInference /\ ForwardIdle /\ GetItemIdle
    \/ InferenceIdle /\ InitForward /\ GetItemIdle
    \/ InferenceIdle /\ ForwardIdle /\ InitGetItem

Next ==
    \/ DecodeStep /\ UNCHANGED <<fwd_vars, get_vars>>
    \/ DecodeRaise /\ UNCHANGED <<fwd_vars, get_vars>>
    \/ InferenceReturn /\ UNCHANGED <<fwd_vars, get_vars>>
    \/ Forward /\ UNCHANGED <<inf_vars, get_vars>>
    \/ ForwardRaise /\ UNCHANGED <<inf_vars, get_vars>>
    \/ GetItemLoad /\ UNCHANGED <<inf_vars, fwd_vars>>
    \/ GetItemRetry /\ UNCHANGED <<inf_vars, fwd_vars>>
    \/ GetItemHandlerRaise /\ UNCHANGED <<inf_vars, fwd_vars>>
    \/ GetItemRecursionError /\ UNCHANGED <<inf_vars, fwd_vars>>

Spec == Init /\ [][Next]_vars

(***************************************************************************)
(* Properties                                                              *)
(***************************************************************************)
ContentIds == 0..(MEL_DICTIONARY_SIZE - 4)

\* Position (1-based) of the first STOP appended to a row of mel_seq, 0 if none.
FirstStop(row) ==
    IF \E j \in 2..Len(row) : row[j] = MEL_STOP_TOKEN
    THEN CHOOSE j \in 2..Len(row) :
            /\ row[j] = MEL_STOP_TOKEN
            /\ \A k \in 2..(j - 1) : row[k] # MEL_STOP_TOKEN
    ELSE 0

\* C1 as stated: both code tensors returned by forward have length mel_len - 1.
C1_LengthIsMelLenMinus1 ==
    fwd_pc = "returned" =>
        /\ Len(fwd_codes) = Len(mel_targets) - 1
        /\ Len(fwd_targets) = Len(mel_targets) - 1

\* C1 amended: both code tensors returned by forward have length mel_len - 2
\* (the START shift and the stripped last position).
C1_LengthIsMelLenMinus2 ==
    fwd_pc = "returned" =>
        /\ Len(fwd_codes) = Len(mel_targets) - 2
        /\ Len(fwd_targets) = Len(mel_targets) - 2

C1_Witness ==
    /\ fwd_pc = "returned"
    /\ Len(mel_targets) = max_mel_frames
    /\ Len(fwd_codes) = max_mel_frames - 2
    /\ Len(fwd_targets) = max_mel_frames - 2

\* C2: whenever inference returns, the returned sequence has length at most
\* max_mel_frames - 2.
C2_ReturnedLengthAtMostLimit ==
    inf_pc = "done" =>
        \A i \in 1..Len(inf_result) : Len(inf_result[i]) <= max_mel_frames - 2

\* C3: the loop halts as soon as every element has stopped or the sequence
\* length reaches max_mel_frames, and for no other reason: the sequence never
\* grows past max_mel_frames, and a call that left the loop did so with
\* every element stopped or with the sequence at max_mel_frames.
C3_LoopHaltsOnStopOrLength ==
    /\ inf_pc # "idle" => Shape1(mel_seq) <= max_mel_frames
    /\ inf_pc = "done" =>
          TorchAll(stop_encountered) \/ Shape1(mel_seq) = max_mel_frames
    /\ inf_pc # "error"

\* C4: when no STOP was produced, the call ends by returning a sequence of
\* length max_mel_frames - 2 with the warning emitted and no error; and the
\* warning is emitted only when the sequence length reached max_mel_frames.
C4_NoStopRunsToLimit ==
    /\ (inf_pc \in {"done", "error"} /\ \A i \in 1..Len(mel_seq) : FirstStop(mel_seq[i]) = 0) =>
          /\ inf_pc = "done"
          /\ warned
          /\ Shape1(mel_seq) = max_mel_frames
          /\ \A i \in 1..Len(inf_result) : Len(inf_result[i]) = max_mel_frames - 2
    /\ warned => Shape1(mel_seq) >= max_mel_frames

\* C5: the sequence returned for an element carries no content token generated
\* after that element's own STOP: every returned position past the stop
\* position holds the padding value 0.
C5_TruncatedAtStop ==
    inf_pc = "done" =>
        \A i \in 1..Len(inf_result) :
            \A j \in 1..Len(inf_result[i]) :
                (FirstStop(mel_seq[i]) # 0 /\ j + 1 > FirstStop(mel_seq[i]))
                    => inf_result[i][j] = 0

\* C6: every element of the tensors returned by forward and by inference is a
\* content id, in [0, 512).
C6_NoReservedIdReturned ==
    /\ fwd_pc = "returned" =>
          /\ \A j \in 1..Len(fwd_codes) : fwd_codes[j] \in ContentIds
          /\ \A j \in 1..Len(fwd_targets) : fwd_targets[j] \in ContentIds
    /\ inf_pc = "done" =>
          \A i \in 1..Len(inf_result) :
              \A j \in 1..Len(inf_result[i]) : inf_result[i][j] \in ContentIds

\* A returned inference result at a position where a reserved id was generated.
C6_Witness ==
    /\ inf_pc = "done"
    /\ \E i \in 1..Len(inf_result) :
          \E j \in 1..Len(inf_result[i]) :
              /\ mel_seq[i][j + 1] >= MEL_START_TOKEN
              /\ inf_result[i][j] = 0

\* C7: in the mel codes returned by forward, position j (0-based) holds the
\* argmax prediction (0 if that prediction is a reserved id) when
\* j < output_lengths - 1, and 0 when j >= output_lengths - 1.
C7_MaskZeroesExactlyPadding ==
    fwd_pc = "returned" =>
        \A j \in 1..Len(fwd_codes) :
            IF (j - 1) < output_lengths - 1
            THEN fwd_codes[j] = (IF mel_argmax[j] \in ContentIds THEN mel_argmax[j] ELSE 0)
            ELSE fwd_codes[j] = 0

\* A returned row with a kept content prediction below the bound and a content
\* prediction zeroed at or beyond it.
C7_Witness ==
    /\ fwd_pc = "returned"
    /\ \E j \in 1..Len(fwd_codes) :
          (j - 1) < output_lengths - 1 /\ mel_argmax[j] = 1 /\ fwd_codes[j] = 1
    /\ \E j \in 1..Len(fwd_codes) :
          (j - 1) >= output_lengths - 1 /\ mel_argmax[j] = 1 /\ fwd_codes[j] = 0

\* C8: when inference halts with every element stopped after k steps, the
\* returned sequence is mel_seq without its first and last token and has
\* length k - 1 (0 when STOP comes at step 1).
C8_StripsStartAndLast ==
    (inf_pc = "done" /\ TorchAll(stop_encountered)) =>
        \A i \in 1..Len(inf_result) :
            /\ Len(inf_result[i]) = steps - 1
            /\ Len(inf_result[i]) = Len(mel_seq[i]) - 2

C8_Witness ==
    /\ inf_pc = "done"
    /\ TorchAll(stop_encountered)
    /\ steps = 1
    /\ \A i \in 1..Len(inf_result) : Len(inf_result[i]) = 0

\* After n steps every row has length n + 1 and starts with START, and an
\* element's stop flag is set iff a STOP was appended to it.
LockstepInv ==
    inf_pc # "idle" =>
        \A i \in 1..Len(mel_seq) :
            /\ Len(mel_seq[i]) = steps + 1
            /\ mel_seq[i][1] = MEL_START_TOKEN
            /\ stop_encountered[i] <=> (FirstStop(mel_seq[i]) # 0)

\* A step appends exactly one token to every row and never clears a stop flag.
LockstepStep ==
    /\ Len(mel_seq') = Len(mel_seq)
    /\ \A i \in 1..Len(mel_seq) :
          /\ \/ mel_seq'[i] = mel_seq[i]
             \/ /\ steps' = steps + 1
                /\ Len(mel_seq'[i]) = Len(mel_seq[i]) + 1
                /\ SubSeq(mel_seq'[i], 1, Len(mel_seq[i])) = mel_seq[i]
          /\ steps' = steps + 1 => Len(mel_seq'[i]) = Len(mel_seq[i]) + 1
          /\ stop_encountered[i] => stop_encountered'[i]

\* C9: batch elements advance in lockstep: after n steps every element has
\* n + 1 tokens starting with START, each step appends one token to every
\* element (stopped or not), and stop_encountered[i] holds iff a STOP was
\* appended to element i, so it never becomes false again.
C9_Lockstep == [](LockstepInv) /\ [][LockstepStep]_vars

\* An element that stopped earlier received a further, non-STOP token.
C9_Witness ==
    /\ inf_pc = "loop"
    /\ \E i \in 1..Len(mel_seq) :
          /\ stop_encountered[i]
          /\ FirstStop(mel_seq[i]) < Len(mel_seq[i])
          /\ mel_seq[i][Len(mel_seq[i])] # MEL_STOP_TOKEN

\* C10: __getitem__(i) makes at most len(audiopaths) - i retries, then returns
\* the first loadable index >= i or surfaces an error.
C10_BoundedLinearScan ==
    /\ get_pc # "idle" => retries <= num_paths - start_index
    /\ get_pc = "returned" =>
          /\ index \in start_index..(num_paths - 1)
          /\ index \notin failing
          /\ \A k \in start_index..(index - 1) : k \in failing

====
